---- MODULE Spec2Model ----
(***************************************************************************)
(* The Negotiator of gaukas/rtcsocks: the offer bin matrix (unbuffered     *)
(* channels keyed by a group bitmap), the answer table with its table      *)
(* mutex and per-row mutex, the four callbacks registerOffer, nextOffer,   *)
(* registerAnswer and lookupAnswer, and the autoPurge sweeper.             *)
(*                                                                         *)
(* Goroutines are modelled as processes that take one step per blocking    *)
(* point (a channel operation, a mutex acquisition) and per critical       *)
(* section.  A uint64 is modelled as the set of its one-bits, so that      *)
(* binID |= x is a union and x & binID > 0 a non-empty intersection.       *)
(* Time is kept relative to time.Now().                                    *)
(***************************************************************************)
EXTENDS Integers, Sequences, FiniteSets, TLC

\* ------------------------------------------------------- program constants
maxGroupID == 2      \* n.maxGroupID, the argument of NewNegotiator
WordBits == 64       \* width of uint64

\* ------------------------------------------------------------------ bounds
ttl == 2             \* n.ttl, the argument of NewNegotiator, in clock ticks
MaxGroupsLen == 2    \* length of the variadic group list
MaxAcks == 1         \* successful registerAnswer calls remembered per row
MaxUser == 1         \* user IDs of the offerers

\* Group IDs a caller passes: 0, the valid ones, and one above maxGroupID.
GroupIDs == 0..(maxGroupID + 1)

\* The variadic argument groups ...uint64: every list up to MaxGroupsLen.
GroupLists == UNION {[1..n -> GroupIDs] : n \in 0..MaxGroupsLen}

\* []byte values: Go tells a nil slice from an empty one (body != nil).
NilBytes == [nil |-> TRUE, bytes |-> <<>>]
Bytes(b) == [nil |-> FALSE, bytes |-> b]
AnswerSDPs == {NilBytes, Bytes(<<>>), Bytes(<<170>>)}
OfferSDPs == {Bytes(<<1>>)}

\* What uint64(f) yields for a float64 f outside the range of uint64: the Go
\* specification leaves it to the implementation.  amd64 yields 1<<63,
\* arm64 saturates to MaxUint64.
Builds == {"msb", "sat"}

\* The errors of the package.
ErrBadGroupID == "ErrBadGroupID"
ErrRNGError == "ErrRNGError"
ErrInvalidOfferID == "ErrInvalidOfferID"
ErrNoOfferAvailable == "ErrNoOfferAvailable"
ErrAnswerPending == "ErrAnswerPending"
ErrAnswerRepeated == "ErrAnswerRepeated"
ErrNoAccess == "ErrNoAccess"
NoErr == "nil"

VARIABLES
    build,         \* the build's out-of-range float64 -> uint64 conversion
    answers,       \* n.answers: offer ID -> row, defined on the present keys
    mutexAnswers,  \* n.mutexAnswers: its holder
    client,        \* the goroutines in registerOffer
    server,        \* the goroutines in nextOffer
    worker,        \* the goroutines in registerAnswer / lookupAnswer
    sweeper,       \* the autoPurge goroutine
    sdk,           \* the Server SDK's loopReadNextOffer goroutine
    ev             \* the call that returned in the last step, if any

vars ==
    <<build, answers, mutexAnswers, client, server, worker, sweeper, sdk, ev>>

\* ------------------------------------------------------------- bit words
\* uint64(math.Pow(2, float64(groupID-1))): exact for groupID in 1..64; for
\* groupID = 0 the exponent wraps to 2^64-1, Pow is +Inf, and the conversion
\* is the build's.
OutOfRange(b) == IF b = "sat" THEN 0..(WordBits - 1) ELSE {WordBits - 1}

Pow2(groupID, b) ==
    IF groupID \in 1..WordBits THEN {groupID - 1} ELSE OutOfRange(b)

\* NewNegotiator: one channel for each bin 1..2^maxGroupID-1.
OfferBins == {w \in SUBSET (0..(maxGroupID - 1)) : w # {}}

\* registerOffer, the loop that computes binID.
RECURSIVE BinOf(_, _)
BinOf(groups, b) ==
    IF groups = <<>> THEN {}
    ELSE LET groupID == groups[Len(groups)]
             rest == BinOf(SubSeq(groups, 1, Len(groups) - 1), b)
         IN IF groupID <= maxGroupID THEN rest \cup Pow2(groupID, b) ELSE rest

\* nextOffer, the loop that collects the bins to receive from.
BinIDsOf(group, b) == {binID \in OfferBins : Pow2(group, b) \cap binID # {}}

\* ------------------------------------------------------------ records
NoProc == <<"none", 0>>

\* An offer object.  ptr is its address; valid is history: the members of
\* the group list it was registered with that lie in 1..maxGroupID.
NoOffer == [ptr |-> 0, id |-> 0, user |-> 0, sdp |-> NilBytes, valid |-> {}]
\* live: the caller of the registerOffer the goroutine runs (the transport's
\* peer) is still there.
IdleClient ==
    [pc |-> "idle", binID |-> {}, off |-> NoOffer, live |-> TRUE,
     pos |-> 0, joined |-> 0]
IdleServer == [pc |-> "idle", group |-> 0, cur |-> {}, left |-> {}, off |-> NoOffer]
IdleWorker == [pc |-> "idle", id |-> 0, user |-> 0, sdp |-> NilBytes]

\* The call that returned: its name, its error, and those of its arguments and
\* results the properties below read (the others are left zero).
Event(op, err, id, ptr, user, body) ==
    [op |-> op, err |-> err, id |-> id, ptr |-> ptr, user |-> user,
     body |-> body]
NoEvent == Event("none", NoErr, 0, 0, 0, NilBytes)

ValidGroups(groups) ==
    {groups[i] : i \in DOMAIN groups} \cap (1..maxGroupID)

\* The field expiry of a row holds answer.expiry - time.Now() in clock ticks,
\* from ttl at the creation down; below Expired it is not counted further.
Expired == 0 - ttl

\* &answer{body: nil, expiry: time.Now().Add(n.ttl), user: user}
\* acks is history: the bodies passed by the registerAnswer calls that
\* returned nil on this row, in order (the first MaxAcks of them).
NewAnswer(off) ==
    [body |-> NilBytes, expiry |-> ttl, user |-> off.user, mutex |-> NoProc,
     acks |-> <<>>]

\* n.answers[id] = row
Put(id, row) ==
    [x \in DOMAIN answers \cup {id} |-> IF x = id THEN row ELSE answers[x]]

\* The address of a new offer object: one no goroutine holds.
Held == {client[c].off.ptr : c \in DOMAIN client}
            \cup {server[s].off.ptr : s \in DOMAIN server}
NewPtr == CHOOSE p \in 1..(Cardinality(Held) + 1) : p \notin Held

\* Mutant: the sweeper sleeps a whole ttl.
SleepWhole == ttl

\* part_000:195: the argument of time.Sleep.
SleepTime == ttl \div 2

\* The Server SDK before SetNextOfferHandler has started its loop.  err,
\* offerID and offer are the results of the last readNextOffer; handler tells
\* whether s.nextOfferHandler is set, waitAfterError whether s.WaitAfterError
\* is above 0.
SDKOff ==
    [pc |-> "off", err |-> NoErr, offerID |-> 0, offer |-> NilBytes,
     handler |-> FALSE, waitAfterError |-> FALSE]

\* The state after NewNegotiator, with nc, ns and nw goroutines about to call
\* registerOffer, nextOffer and registerAnswer / lookupAnswer.
InitWith(nc, ns, nw) ==
    /\ build \in Builds
    /\ answers = <<>>
    /\ mutexAnswers = NoProc
    /\ client = [c \in 1..nc |-> IdleClient]
    /\ server = [s \in 1..ns |-> IdleServer]
    /\ worker = [w \in 1..nw |-> IdleWorker]
    /\ sweeper = [pc |-> "sleep", sleep |-> SleepTime]
    /\ sdk = SDKOff
    /\ ev = NoEvent

\* ------------------------------------------------------------ registerOffer
\* part_000:78-86: binID == 0, return 0, ErrBadGroupID.
RO_BadGroup(c, user, sdp, groups) ==
    /\ client[c].pc = "idle"
    /\ BinOf(groups, build) = {}
    /\ ev' = Event("registerOffer", ErrBadGroupID, 0, 0, 0, NilBytes)
    /\ UNCHANGED <<sdk, build, answers, mutexAnswers, client, server, worker,
                   sweeper>>

\* part_000:89-93: rand.Int fails, return 0, ErrRNGError.
RO_RNGError(c, user, sdp, groups) ==
    /\ client[c].pc = "idle"
    /\ BinOf(groups, build) # {}
    /\ ev' = Event("registerOffer", ErrRNGError, 0, 0, 0, NilBytes)
    /\ UNCHANGED <<sdk, build, answers, mutexAnswers, client, server, worker,
                   sweeper>>

\* part_000:78-101: the bin is computed, the random ID drawn, the offer object
\* allocated, and the goroutine blocks in the send on n.offerBins[binID]
\* (a nil channel when binID is no key of the map).
\* part_000:97: the goroutines blocked in the send on the channel of a bin, the
\* sendq of that channel.
Senders(binID) ==
    {x \in DOMAIN client : client[x].pc = "send" /\ client[x].binID = binID}

\* The place a sender takes in the sendq: behind the senders already blocked
\* on the channel.  A send on a nil channel joins no queue.
Joins(binID) ==
    IF binID \in OfferBins THEN Cardinality(Senders(binID)) + 1 ELSE 0

\* pos is the sender's place in the sendq now (1 is the head), joined the
\* place it took when it blocked.
Blocked(c, user, sdp, groups, offerID) ==
    [pc |-> "send", binID |-> BinOf(groups, build),
     off |-> [ptr |-> NewPtr, id |-> offerID, user |-> user, sdp |-> sdp,
              valid |-> ValidGroups(groups)],
     live |-> TRUE,
     pos |-> Joins(BinOf(groups, build)),
     joined |-> Joins(BinOf(groups, build))]

\* Mutant: registerOffer takes the table mutex before the send and keeps it
\* while it is blocked.
RO_SendLocked(c, user, sdp, groups, offerID) ==
    /\ client[c].pc = "idle"
    /\ BinOf(groups, build) # {}
    /\ mutexAnswers = NoProc
    /\ mutexAnswers' = <<"client", c>>
    /\ client' = [client EXCEPT ![c] = Blocked(c, user, sdp, groups, offerID)]
    /\ ev' = NoEvent
    /\ UNCHANGED <<sdk, build, answers, server, worker, sweeper>>

RO_Send(c, user, sdp, groups, offerID) ==
    /\ client[c].pc = "idle"
    /\ BinOf(groups, build) # {}
    /\ client' = [client EXCEPT ![c] = Blocked(c, user, sdp, groups, offerID)]
    /\ ev' = NoEvent
    /\ UNCHANGED <<sdk, build, answers, mutexAnswers, server, worker, sweeper>>

\* Mutant: the receive takes any of the blocked senders.
RendezvousAny(c, s) ==
    /\ client[c].pc = "send"
    /\ client[c].binID \in OfferBins
    /\ server[s].pc = "probe"
    /\ server[s].cur = client[c].binID

\* part_000:97 and part_000:132: the rendezvous on an unbuffered channel: the
\* sender c is blocked on the channel the select of s receives from, and is
\* the head of its sendq (the receive dequeues the sender that has been
\* blocked the longest).
Rendezvous(c, s) ==
    /\ client[c].pc = "send"
    /\ client[c].binID \in OfferBins
    /\ client[c].pos = 1
    /\ server[s].pc = "probe"
    /\ server[s].cur = client[c].binID

\* Mutant: the receive does not take the offer off the channel.
SentStays(cl) == cl

\* The sender after the receiver has taken the offer: past the send.
Sent(cl) == [cl EXCEPT !.pc = "store", !.pos = 0, !.joined = 0]

\* The sendq after the send of c has completed: c has left it and the senders
\* behind c have moved up.
Dequeue(c) ==
    [x \in DOMAIN client |->
        IF x = c THEN Sent(client[c])
        ELSE IF x \in Senders(client[c].binID) /\ client[x].pos > client[c].pos
             THEN [client[x] EXCEPT !.pos = @ - 1]
             ELSE client[x]]

\* Mutant: a buffered channel, the send completes with no receiver.
HandoffBuffered(c, s) ==
    /\ client[c].pc = "send"
    /\ client[c].binID \in OfferBins
    /\ client' = Dequeue(c)
    /\ ev' = NoEvent
    /\ UNCHANGED <<sdk, build, answers, mutexAnswers, server, worker, sweeper>>

Handoff(c, s) ==
    /\ Rendezvous(c, s)
    /\ client' = Dequeue(c)
    /\ server' = [server EXCEPT ![s].pc = "check", ![s].off = client[c].off]
    /\ ev' = NoEvent
    /\ UNCHANGED <<sdk, build, answers, mutexAnswers, worker, sweeper>>

\* The caller of a blocked registerOffer goes away (the HTTP client
\* disconnects).  registerOffer takes no context and API.registerOffer
\* (part_002:104) passes none: the goroutine stays in the send.
Disconnect(c) ==
    /\ client[c].pc = "send"
    /\ client[c].live
    /\ client' = [client EXCEPT ![c].live = FALSE]
    /\ ev' = NoEvent
    /\ UNCHANGED <<sdk, build, answers, mutexAnswers, server, worker, sweeper>>

\* part_000:104: n.mutexAnswers.Lock().
RO_Lock(c) ==
    /\ client[c].pc = "store"
    /\ mutexAnswers = NoProc
    /\ mutexAnswers' = <<"client", c>>
    /\ client' = [client EXCEPT ![c].pc = "insert"]
    /\ ev' = NoEvent
    /\ UNCHANGED <<sdk, build, answers, server, worker, sweeper>>

\* part_000:105-113: the row is stored, the mutex released, offerID returned.
RO_Insert(c) ==
    /\ client[c].pc = "insert"
    /\ answers' = Put(client[c].off.id, NewAnswer(client[c].off))
    /\ ev' = Event("registerOffer", NoErr, client[c].off.id, client[c].off.ptr,
                   0, NilBytes)
    /\ mutexAnswers' = NoProc
    /\ client' = [client EXCEPT ![c] = IdleClient]
    /\ UNCHANGED <<sdk, build, server, worker, sweeper>>

\* ---------------------------------------------------------------- nextOffer
\* part_000:119-128,155: no bin matches the group, the loop body never runs.
NO_NoBins(s, group) ==
    /\ server[s].pc = "idle"
    /\ BinIDsOf(group, build) = {}
    /\ ev' = Event("nextOffer", ErrNoOfferAvailable, 0, 0, 0, NilBytes)
    /\ UNCHANGED <<sdk, build, answers, mutexAnswers, client, server, worker,
                   sweeper>>

\* part_000:119-131: binIDs is collected in the map's iteration order, which
\* is arbitrary: the first bin is any of them, the rest stay to be probed.
NO_Begin(s, group) ==
    /\ server[s].pc = "idle"
    /\ \E binID \in BinIDsOf(group, build) :
         server' = [server EXCEPT ![s] =
           [pc |-> "probe", group |-> group, cur |-> binID,
            left |-> BinIDsOf(group, build) \ {binID}, off |-> NoOffer]]
    /\ ev' = NoEvent
    /\ UNCHANGED <<sdk, build, answers, mutexAnswers, client, worker, sweeper>>

\* part_000:149-150: default, no sender is waiting: continue LOOP_ALL_BINS.
NO_NextBin(s) ==
    /\ server[s].pc = "probe"
    /\ ~ \E c \in DOMAIN client : Rendezvous(c, s)
    /\ \E binID \in server[s].left :
         server' = [server EXCEPT ![s].cur = binID,
                                  ![s].left = server[s].left \ {binID}]
    /\ ev' = NoEvent
    /\ UNCHANGED <<sdk, build, answers, mutexAnswers, client, worker, sweeper>>

\* part_000:149-155: default on the last bin: return 0, nil, ErrNoOfferAvailable.
NO_NoOffer(s) ==
    /\ server[s].pc = "probe"
    /\ ~ \E c \in DOMAIN client : Rendezvous(c, s)
    /\ server[s].left = {}
    /\ ev' = Event("nextOffer", ErrNoOfferAvailable, 0, 0, 0, NilBytes)
    /\ server' = [server EXCEPT ![s] = IdleServer]
    /\ UNCHANGED <<sdk, build, answers, mutexAnswers, client, worker, sweeper>>

\* part_000:134-139: under the table mutex the row is not found: the offer is
\* dropped, the mutex released, continue LOOP_CURRENT_BIN.
NO_Missing(s) ==
    /\ server[s].pc = "check"
    /\ mutexAnswers = NoProc
    /\ server[s].off.id \notin DOMAIN answers
    /\ ev' = Event("dropMissing", NoErr, server[s].off.id, server[s].off.ptr,
                   0, NilBytes)
    /\ server' = [server EXCEPT ![s].pc = "probe", ![s].off = NoOffer]
    /\ UNCHANGED <<sdk, build, answers, mutexAnswers, client, worker, sweeper>>

\* part_000:134-135: the table mutex is taken and the row found.
NO_Found(s) ==
    /\ server[s].pc = "check"
    /\ mutexAnswers = NoProc
    /\ server[s].off.id \in DOMAIN answers
    /\ mutexAnswers' = <<"server", s>>
    /\ server' = [server EXCEPT ![s].pc = "rowlock"]
    /\ ev' = NoEvent
    /\ UNCHANGED <<sdk, build, answers, client, worker, sweeper>>

\* part_000:140: answer.mutex.Lock().
NO_RowLock(s) ==
    /\ server[s].pc = "rowlock"
    /\ answers[server[s].off.id].mutex = NoProc
    /\ answers' = [answers EXCEPT ![server[s].off.id].mutex = <<"server", s>>]
    /\ server' = [server EXCEPT ![s].pc = "expiry"]
    /\ ev' = NoEvent
    /\ UNCHANGED <<sdk, build, mutexAnswers, client, worker, sweeper>>

\* Mutant: After in the place of Before.
StaleAfter(row) == row.expiry > 0

\* part_000:141: answer.expiry.Before(time.Now()).
Stale(row) == row.expiry < 0

\* Mutant: the path of the expired row returns without answer.mutex.Unlock().
NO_ExpiredKeepsRowLock(s) ==
    /\ server[s].pc = "expiry"
    /\ Stale(answers[server[s].off.id])
    /\ mutexAnswers' = NoProc
    /\ ev' = Event("dropExpired", NoErr, server[s].off.id, server[s].off.ptr,
                   0, NilBytes)
    /\ server' = [server EXCEPT ![s].pc = "probe", ![s].off = NoOffer]
    /\ UNCHANGED <<sdk, build, answers, client, worker, sweeper>>

\* part_000:141-145: the row has expired: both mutexes are released, the
\* offer is dropped, continue LOOP_CURRENT_BIN.
NO_Expired(s) ==
    /\ server[s].pc = "expiry"
    /\ Stale(answers[server[s].off.id])
    /\ answers' = [answers EXCEPT ![server[s].off.id].mutex = NoProc]
    /\ mutexAnswers' = NoProc
    /\ ev' = Event("dropExpired", NoErr, server[s].off.id, server[s].off.ptr,
                   0, NilBytes)
    /\ server' = [server EXCEPT ![s].pc = "probe", ![s].off = NoOffer]
    /\ UNCHANGED <<sdk, build, client, worker, sweeper>>

\* part_000:146-148: return offerObj.id, offerObj.sdp, nil.
NO_Return(s) ==
    /\ server[s].pc = "expiry"
    /\ ~ Stale(answers[server[s].off.id])
    /\ answers' = [answers EXCEPT ![server[s].off.id].mutex = NoProc]
    /\ mutexAnswers' = NoProc
    /\ ev' = Event("nextOffer", NoErr, server[s].off.id, server[s].off.ptr,
                   0, server[s].off.sdp)
    /\ server' = [server EXCEPT ![s] = IdleServer]
    /\ UNCHANGED <<sdk, build, client, worker, sweeper>>

\* Mutant: registerAnswer also refuses a row whose expiry has passed.
RA_InvalidOrExpired(w, offerID, sdp) ==
    /\ worker[w].pc = "idle"
    /\ mutexAnswers = NoProc
    /\ \/ offerID \notin DOMAIN answers
       \/ offerID \in DOMAIN answers /\ answers[offerID].expiry < 0
    /\ ev' = Event("registerAnswer", ErrInvalidOfferID, offerID, 0, 0, NilBytes)
    /\ UNCHANGED <<sdk, build, answers, mutexAnswers, client, server, worker,
                   sweeper>>

\* ----------------------------------------------------------- registerAnswer
\* part_000:159-164: the table mutex is taken, the row is not there.
RA_Invalid(w, offerID, sdp) ==
    /\ worker[w].pc = "idle"
    /\ mutexAnswers = NoProc
    /\ offerID \notin DOMAIN answers
    /\ ev' = Event("registerAnswer", ErrInvalidOfferID, offerID, 0, 0, NilBytes)
    /\ UNCHANGED <<sdk, build, answers, mutexAnswers, client, server, worker,
                   sweeper>>

\* part_000:159-161: the table mutex is taken (and held to the return), the
\* row found.
RA_Found(w, offerID, sdp) ==
    /\ worker[w].pc = "idle"
    /\ mutexAnswers = NoProc
    /\ offerID \in DOMAIN answers
    /\ worker' = [worker EXCEPT ![w] =
         [pc |-> "ra_rowlock", id |-> offerID, user |-> 0, sdp |-> sdp]]
    /\ mutexAnswers' = <<"worker", w>>
    /\ ev' = NoEvent
    /\ UNCHANGED <<sdk, build, answers, client, server, sweeper>>

\* part_000:165: answer.mutex.Lock().
RA_RowLock(w) ==
    /\ worker[w].pc = "ra_rowlock"
    /\ answers[worker[w].id].mutex = NoProc
    /\ answers' = [answers EXCEPT ![worker[w].id].mutex = <<"worker", w>>]
    /\ worker' = [worker EXCEPT ![w].pc = "ra_body"]
    /\ ev' = NoEvent
    /\ UNCHANGED <<sdk, build, mutexAnswers, client, server, sweeper>>

\* part_000:167: answer.body != nil.
HasBody(row) == ~ row.body.nil

\* Mutant: the body is written before the check of line 167.
RA_RepeatedWrites(w) ==
    /\ worker[w].pc = "ra_body"
    /\ HasBody(answers[worker[w].id])
    /\ answers' = [answers EXCEPT ![worker[w].id].mutex = NoProc,
                                  ![worker[w].id].body = worker[w].sdp]
    /\ mutexAnswers' = NoProc
    /\ ev' = Event("registerAnswer", ErrAnswerRepeated, worker[w].id, 0, 0,
                   worker[w].sdp)
    /\ worker' = [worker EXCEPT ![w] = IdleWorker]
    /\ UNCHANGED <<sdk, build, client, server, sweeper>>

\* part_000:167-169: return ErrAnswerRepeated; the deferred unlocks release
\* the row mutex and the table mutex.
RA_Repeated(w) ==
    /\ worker[w].pc = "ra_body"
    /\ HasBody(answers[worker[w].id])
    /\ answers' = [answers EXCEPT ![worker[w].id].mutex = NoProc]
    /\ mutexAnswers' = NoProc
    /\ ev' = Event("registerAnswer", ErrAnswerRepeated, worker[w].id, 0, 0,
                   worker[w].sdp)
    /\ worker' = [worker EXCEPT ![w] = IdleWorker]
    /\ UNCHANGED <<sdk, build, client, server, sweeper>>

\* Mutant: the answer renews the expiry of the row.
SetBodyRenews(row, sdp) ==
    [row EXCEPT !.body = sdp, !.expiry = ttl,
                !.acks = IF Len(@) < MaxAcks THEN Append(@, sdp) ELSE @]

\* part_000:170: answer.body = sdp (and the history of the row).
SetBody(row, sdp) ==
    [row EXCEPT !.body = sdp,
                !.acks = IF Len(@) < MaxAcks THEN Append(@, sdp) ELSE @]

\* part_000:167-171: the body is set, return nil.
RA_Set(w) ==
    /\ worker[w].pc = "ra_body"
    /\ ~ HasBody(answers[worker[w].id])
    /\ answers' = [answers EXCEPT ![worker[w].id] =
                     [SetBody(@, worker[w].sdp) EXCEPT !.mutex = NoProc]]
    /\ mutexAnswers' = NoProc
    /\ ev' = Event("registerAnswer", NoErr, worker[w].id, 0, 0, worker[w].sdp)
    /\ worker' = [worker EXCEPT ![w] = IdleWorker]
    /\ UNCHANGED <<sdk, build, client, server, sweeper>>

\* ------------------------------------------------------------- lookupAnswer
\* part_000:175-180: the table mutex is taken, the row is not there.
LA_Invalid(w, user, offerID) ==
    /\ worker[w].pc = "idle"
    /\ mutexAnswers = NoProc
    /\ offerID \notin DOMAIN answers
    /\ ev' = Event("lookupAnswer", ErrInvalidOfferID, offerID, 0, 0, NilBytes)
    /\ UNCHANGED <<sdk, build, answers, mutexAnswers, client, server, worker,
                   sweeper>>

\* part_000:175-177: the table mutex is taken (and held to the return), the
\* row found.
LA_Found(w, user, offerID) ==
    /\ worker[w].pc = "idle"
    /\ mutexAnswers = NoProc
    /\ offerID \in DOMAIN answers
    /\ worker' = [worker EXCEPT ![w] =
         [pc |-> "la_rowlock", id |-> offerID, user |-> user, sdp |-> NilBytes]]
    /\ mutexAnswers' = <<"worker", w>>
    /\ ev' = NoEvent
    /\ UNCHANGED <<sdk, build, answers, client, server, sweeper>>

\* part_000:181: answer.mutex.Lock().
LA_RowLock(w) ==
    /\ worker[w].pc = "la_rowlock"
    /\ answers[worker[w].id].mutex = NoProc
    /\ answers' = [answers EXCEPT ![worker[w].id].mutex = <<"worker", w>>]
    /\ worker' = [worker EXCEPT ![w].pc = "la_body"]
    /\ ev' = NoEvent
    /\ UNCHANGED <<sdk, build, mutexAnswers, client, server, sweeper>>

\* Mutant: the body is looked at before the owner.
LookupBodyFirst(row, user) ==
    IF row.body.nil THEN [err |-> ErrAnswerPending, body |-> NilBytes]
    ELSE IF row.user # user THEN [err |-> ErrNoAccess, body |-> NilBytes]
    ELSE [err |-> NoErr, body |-> row.body]

\* part_000:183-190: what lookupAnswer returns on the row it holds.
LookupResult(row, user) ==
    IF row.user # user THEN [err |-> ErrNoAccess, body |-> NilBytes]
    ELSE IF row.body.nil THEN [err |-> ErrAnswerPending, body |-> NilBytes]
    ELSE [err |-> NoErr, body |-> row.body]

\* part_000:183-190 and the deferred unlocks.
LA_Return(w) ==
    /\ worker[w].pc = "la_body"
    /\ LET res == LookupResult(answers[worker[w].id], worker[w].user)
       IN ev' = Event("lookupAnswer", res.err, worker[w].id, 0, worker[w].user,
                      res.body)
    /\ answers' = [answers EXCEPT ![worker[w].id].mutex = NoProc]
    /\ mutexAnswers' = NoProc
    /\ worker' = [worker EXCEPT ![w] = IdleWorker]
    /\ UNCHANGED <<sdk, build, client, server, sweeper>>

\* -------------------------------------------------- API.lookupAnswer (HTTP)
\* part_000:175-190 as one step: lookupAnswer holds the table mutex from its
\* first line to its return, and a row mutex is only ever taken by the holder
\* of the table mutex, so nothing interleaves with the call.
Lookup(user, offerID) ==
    IF offerID \notin DOMAIN answers
    THEN [err |-> ErrInvalidOfferID, body |-> NilBytes]
    ELSE LookupResult(answers[offerID], user)

\* part_002:249: base64.StdEncoding.EncodeToString(answer); a nil slice and
\* an empty one both give the empty string.
EncodeToString(body) == <<"base64", body.bytes>>

\* part_002:234-250: the reply to the HTTP client.
Reply(res) ==
    IF res.err = NoErr
    THEN [status |-> "success", answer |-> EncodeToString(res.body)]
    ELSE IF res.err = ErrAnswerPending
    THEN [status |-> "pending", answer |-> <<>>]
    ELSE [status |-> "error", answer |-> <<>>]

\* part_002:203-251: the handler of an authenticated request with the form
\* fields uid and offer_id: a.lookupAnswerCallback(offerID, uid), the callback
\* being Negotiator.lookupAnswer(user, offerID uint64).
API_lookupAnswer(w, uid, offerID) ==
    /\ worker[w].pc = "idle"
    /\ mutexAnswers = NoProc
    /\ LET rep == Reply(Lookup(offerID, uid))
       IN ev' = Event("API.lookupAnswer", rep.status, offerID, 0, uid,
                      rep.answer)
    /\ UNCHANGED <<sdk, build, answers, mutexAnswers, client, server, worker,
                   sweeper>>

\* ------------------------------------------- Server SDK: loopReadNextOffer
ErrOther == "error"

\* const.go:52-56: SetNextOfferHandler(handler) starts the loop.
SDK_Start(h, wae) ==
    /\ sdk.pc = "off"
    /\ sdk' = [SDKOff EXCEPT !.pc = "poll", !.handler = h,
                             !.waitAfterError = wae]
    /\ ev' = NoEvent
    /\ UNCHANGED <<build, answers, mutexAnswers, client, server, worker,
                   sweeper>>

\* part_002:138-156 and const.go:212-230: what readNextOffer returns for the
\* gateway's reply to a nextOffer call that returned e: the offer on status
\* success, 0, nil, ErrNoOfferAvailable on status pending, 0, nil and another
\* error otherwise.  base64 decoding gives a slice that is not nil.
ReadNextOffer(e) ==
    IF e.err = NoErr
    THEN [err |-> NoErr, offerID |-> e.id, offer |-> Bytes(e.body.bytes)]
    ELSE IF e.err = ErrNoOfferAvailable
    THEN [err |-> ErrNoOfferAvailable, offerID |-> 0, offer |-> NilBytes]
    ELSE [err |-> ErrOther, offerID |-> 0, offer |-> NilBytes]

\* const.go:118-139: after readNextOffer the loop sleeps on an error (or
\* returns, on an error other than ErrNoOfferAvailable with WaitAfterError
\* = 0) and in every other case goes on to line 140.
AfterPoll(res) ==
    [sdk EXCEPT !.err = res.err, !.offerID = res.offerID, !.offer = res.offer,
                !.pc = IF res.err \notin {NoErr, ErrNoOfferAvailable}
                          /\ ~ sdk.waitAfterError
                       THEN "stopped" ELSE "handle"]

\* const.go:118: readNextOffer returns the reply to the nextOffer call that
\* has just returned.
SDK_Poll ==
    /\ sdk.pc = "poll"
    /\ ev.op = "nextOffer"
    /\ sdk' = AfterPoll(ReadNextOffer(ev))
    /\ ev' = NoEvent
    /\ UNCHANGED <<build, answers, mutexAnswers, client, server, worker,
                   sweeper>>

\* const.go:164-166, 197-199, 208-210: readNextOffer fails before it has a
\* reply (no address, the POST fails, the reply is no JSON).
SDK_PollFails ==
    /\ sdk.pc = "poll"
    /\ sdk' = AfterPoll([err |-> ErrOther, offerID |-> 0, offer |-> NilBytes])
    /\ ev' = NoEvent
    /\ UNCHANGED <<build, answers, mutexAnswers, client, server, worker,
                   sweeper>>

\* const.go:144-159: s.nextOfferHandler(offerID, offer) when the handler is
\* set, then the next round.  The event carries the error of the poll the
\* handler is called for.
SDK_Handle ==
    /\ sdk.pc = "handle"
    /\ ev' = IF sdk.handler
             THEN Event("nextOfferHandler", sdk.err, sdk.offerID, 0, 0,
                        sdk.offer)
             ELSE NoEvent
    /\ sdk' = [sdk EXCEPT !.pc = "poll"]
    /\ UNCHANGED <<build, answers, mutexAnswers, client, server, worker,
                   sweeper>>

SDKSteps ==
    \/ \E h \in BOOLEAN, wae \in BOOLEAN : SDK_Start(h, wae)
    \/ SDK_Poll
    \/ SDK_PollFails
    \/ SDK_Handle

\* ---------------------------------------------------------------- autoPurge
\* part_000:195-196: time.Sleep(n.ttl / 2) is over, the table mutex is taken.
AP_Lock ==
    /\ sweeper.pc = "sleep"
    /\ sweeper.sleep = 0
    /\ mutexAnswers = NoProc
    /\ mutexAnswers' = <<"sweeper", 0>>
    /\ sweeper' = [sweeper EXCEPT !.pc = "sweep"]
    /\ ev' = NoEvent
    /\ UNCHANGED <<sdk, build, answers, client, server, worker>>

\* Mutant: a row is deleted as soon as its expiry is reached.
PurgedEarly(row) == 0 >= row.expiry

\* part_000:198: time.Now().After(answer.expiry).
Purged(row) == 0 > row.expiry

\* part_000:197-202 and 195: every row is inspected and the expired ones are
\* deleted, the mutex is released and the goroutine sleeps again.
AP_Sweep ==
    /\ sweeper.pc = "sweep"
    /\ answers' = [x \in {y \in DOMAIN answers : ~ Purged(answers[y])}
                     |-> answers[x]]
    /\ mutexAnswers' = NoProc
    /\ sweeper' = [pc |-> "sleep", sleep |-> SleepTime]
    /\ ev' = IF \E y \in DOMAIN answers : Purged(answers[y])
             THEN Event("purge", NoErr, 0, 0, 0, NilBytes)
             ELSE NoEvent
    /\ UNCHANGED <<sdk, build, client, server, worker>>

\* One tick of the clock.  time.Sleep is taken to last exactly n.ttl / 2 and
\* the sweep to take no time: the clock does not pass the sweeper's wake-up
\* time before the sweep of that time is done.
Older(row) == [row EXCEPT !.expiry = IF @ > Expired THEN @ - 1 ELSE @]

Tick ==
    /\ sweeper.pc = "sleep"
    /\ sweeper.sleep > 0
    /\ sweeper' = [sweeper EXCEPT !.sleep = @ - 1]
    /\ answers' = [x \in DOMAIN answers |-> Older(answers[x])]
    /\ ev' = NoEvent
    /\ UNCHANGED <<sdk, build, mutexAnswers, client, server, worker>>

\* ------------------------------------------------------------ specifications
\* The steps of registerOffer and nextOffer on inputs from the given sets.
OfferSteps(users, lists, ids, groups) ==
    \/ \E c \in DOMAIN client, u \in users, sdp \in OfferSDPs, l \in lists :
         RO_BadGroup(c, u, sdp, l)
    \/ \E c \in DOMAIN client, u \in users, sdp \in OfferSDPs, l \in lists :
         RO_RNGError(c, u, sdp, l)
    \/ \E s \in DOMAIN server, g \in groups : NO_NoBins(s, g)

TableSteps(users, lists, ids, groups) ==
    \/ \E c \in DOMAIN client, u \in users, sdp \in OfferSDPs, l \in lists,
          id \in ids : RO_Send(c, u, sdp, l, id)
    \/ \E c \in DOMAIN client, s \in DOMAIN server : Handoff(c, s)
    \/ \E c \in DOMAIN client : RO_Lock(c)
    \/ \E c \in DOMAIN client : RO_Insert(c)
    \/ \E s \in DOMAIN server, g \in groups : NO_Begin(s, g)
    \/ \E s \in DOMAIN server : NO_NextBin(s)
    \/ \E s \in DOMAIN server : NO_NoOffer(s)
    \/ \E s \in DOMAIN server : NO_Missing(s)
    \/ \E s \in DOMAIN server : NO_Found(s)
    \/ \E s \in DOMAIN server : NO_RowLock(s)
    \/ \E s \in DOMAIN server : NO_Expired(s)
    \/ \E s \in DOMAIN server : NO_Return(s)

\* The steps of registerAnswer and lookupAnswer on inputs from the given sets.
AnswerStepsOn(users, ids, sdps) ==
    \/ \E w \in DOMAIN worker, id \in ids, sdp \in sdps :
         RA_Invalid(w, id, sdp)
    \/ \E w \in DOMAIN worker, id \in ids, sdp \in sdps :
         RA_Found(w, id, sdp)
    \/ \E w \in DOMAIN worker : RA_RowLock(w)
    \/ \E w \in DOMAIN worker : RA_Repeated(w)
    \/ \E w \in DOMAIN worker : RA_Set(w)
    \/ \E w \in DOMAIN worker, u \in users, id \in ids : LA_Invalid(w, u, id)
    \/ \E w \in DOMAIN worker, u \in users, id \in ids : LA_Found(w, u, id)
    \/ \E w \in DOMAIN worker : LA_RowLock(w)
    \/ \E w \in DOMAIN worker : LA_Return(w)

AnswerSteps(users, ids) == AnswerStepsOn(users, ids, AnswerSDPs)

SweeperSteps == AP_Lock \/ AP_Sweep \/ Tick

\* registerOffer is called for the users 1..MaxUser; lookupAnswer also for
\* user 0, who owns nothing.
Users == 1..MaxUser
Lookers == 0..MaxUser

\* rand.Int draws the offer ID from a single value: every two registrations
\* collide.
OfferIDs == {0}

\* The whole negotiator: one goroutine of each kind.
Init == InitWith(1, 1, 1)

Next ==
    \/ OfferSteps(Users, GroupLists, OfferIDs, GroupIDs)
    \/ TableSteps(Users, GroupLists, OfferIDs, GroupIDs)
    \/ AnswerSteps(Lookers, OfferIDs)
    \/ SweeperSteps

Spec == Init /\ [][Next]_vars

\* The offer side: one goroutine in registerOffer and one in nextOffer, on
\* every group list and group, the sweeper and the clock.
InitOffers == InitWith(1, 1, 0)

NextOffers ==
    \/ OfferSteps(Users, GroupLists, OfferIDs, GroupIDs)
    \/ TableSteps(Users, GroupLists, OfferIDs, GroupIDs)
    \/ SweeperSteps

SpecOffers == InitOffers /\ [][NextOffers]_vars

\* The answer side: registerAnswer and lookupAnswer on rows that
\* registerOffer(user, sdp, 1) creates once nextOffer(1) has taken the offer,
\* the sweeper and the clock.  The calls of registerOffer and nextOffer that
\* return an error before they reach the table are left out.
InitAnswers == InitWith(1, 1, 1)

NextAnswers ==
    \/ TableSteps(Users, {<<1>>}, OfferIDs, {1})
    \/ AnswerSteps(Lookers, OfferIDs)
    \/ SweeperSteps

SpecAnswers == InitAnswers /\ [][NextAnswers]_vars

\* Concurrent nextOffer callers: registerOffer for the groups {2} and {1, 2}
\* in one goroutine against nextOffer(1) and nextOffer(2) in two.
InitRace == InitWith(1, 2, 0)

NextRace ==
    \/ TableSteps(Users, {<<2>>, <<1, 2>>}, OfferIDs, {1, 2})
    \/ SweeperSteps

SpecRace == InitRace /\ [][NextRace]_vars

\* Two rows and two goroutines in registerAnswer / lookupAnswer: the state
\* after registerOffer has returned the IDs 0 and 1 to users of Users, each
\* row not yet expired, with the sweeper and the clock.
RowIDs == {0, 1}

InitRows ==
    /\ build \in Builds
    /\ answers \in [RowIDs -> {[NewAnswer([NoOffer EXCEPT !.user = u])
                                  EXCEPT !.expiry = e] :
                               u \in Users, e \in 1..ttl}]
    /\ mutexAnswers = NoProc
    /\ client = <<>>
    /\ server = <<>>
    /\ worker = [w \in 1..2 |-> IdleWorker]
    /\ sweeper = [pc |-> "sleep", sleep |-> SleepTime]
    /\ sdk = SDKOff
    /\ ev = NoEvent

NextRows == AnswerSteps(Lookers, RowIDs) \/ SweeperSteps

SpecRows == InitRows /\ [][NextRows]_vars

\* The offer side under the scheduler's fairness: a goroutine that can take
\* its next step again and again takes it (a nextOffer call runs on, a
\* registerOffer past its send stores its row, the sweeper wakes up; a
\* sync.Mutex does not starve a waiter), and the clock goes on.  Nothing
\* obliges a caller to call registerOffer or nextOffer.
ServerRuns ==
    \E s \in DOMAIN server :
        \/ \E c \in DOMAIN client : Handoff(c, s)
        \/ NO_NextBin(s) \/ NO_NoOffer(s) \/ NO_Missing(s) \/ NO_Found(s)
        \/ NO_RowLock(s) \/ NO_Expired(s) \/ NO_Return(s)

ClientRuns == \E c \in DOMAIN client : RO_Lock(c) \/ RO_Insert(c)

SweeperRuns == AP_Lock \/ AP_Sweep

SpecOffersFair ==
    /\ SpecOffers
    /\ SF_vars(ServerRuns)
    /\ SF_vars(ClientRuns)
    /\ SF_vars(SweeperRuns)
    /\ WF_vars(Tick)

\* A registerOffer whose caller may go away while it is blocked, against
\* nextOffer, the sweeper and the clock.
InitCancel == InitWith(1, 1, 0)

NextCancel ==
    \/ TableSteps(Users, {<<1>>}, OfferIDs, {1})
    \/ SweeperSteps
    \/ \E c \in DOMAIN client : Disconnect(c)

SpecCancel == InitCancel /\ [][NextCancel]_vars

\* The HTTP gateway's lookup: rows that registerOffer creates for the users
\* of Users, answered by registerAnswer, looked up through API.lookupAnswer
\* by authenticated users.
InitGateway == InitWith(1, 1, 1)

NextGateway ==
    \/ TableSteps(Users, {<<1>>}, OfferIDs, {1})
    \/ AnswerSteps(Lookers, OfferIDs)
    \/ \E w \in DOMAIN worker, uid \in Users, id \in OfferIDs :
          API_lookupAnswer(w, uid, id)
    \/ SweeperSteps

SpecGateway == InitGateway /\ [][NextGateway]_vars

\* The Server SDK polling a negotiator on which registerOffer and nextOffer
\* are called for every group, with the sweeper and the clock.
InitSDK == InitWith(1, 1, 0)

NextSDK ==
    \/ OfferSteps(Users, {<<>>, <<1>>}, OfferIDs, GroupIDs)
    \/ TableSteps(Users, {<<>>, <<1>>}, OfferIDs, GroupIDs)
    \/ SweeperSteps
    \/ SDKSteps

SpecSDK == InitSDK /\ [][NextSDK]_vars

\* Every operation that takes a mutex, at once: registerOffer, nextOffer, two
\* goroutines in registerAnswer / lookupAnswer and the sweeper, on the row of
\* ID 1 that a registerOffer has just stored and the rows of ID 0 that
\* registerOffer goes on storing.
InitLocks ==
    /\ build \in Builds
    /\ answers = [x \in {1} |-> NewAnswer([NoOffer EXCEPT !.user = 1])]
    /\ mutexAnswers = NoProc
    /\ client = [c \in 1..1 |-> IdleClient]
    /\ server = [s \in 1..1 |-> IdleServer]
    /\ worker = [w \in 1..2 |-> IdleWorker]
    /\ sweeper = [pc |-> "sleep", sleep |-> SleepTime]
    /\ sdk = SDKOff
    /\ ev = NoEvent

NextLocks ==
    \/ TableSteps(Users, {<<1>>}, OfferIDs, {1})
    \/ AnswerStepsOn(Users, RowIDs, {Bytes(<<170>>)})
    \/ SweeperSteps

SpecLocks == InitLocks /\ [][NextLocks]_vars

\* Two registerOffer goroutines and one nextOffer: the senders can be blocked
\* on the same channel at the same time.
InitQueue == InitWith(2, 1, 0)

NextQueue ==
    \/ TableSteps(Users, {<<1>>, <<1, 2>>}, OfferIDs, {1, 2})
    \/ SweeperSteps

SpecQueue == InitQueue /\ [][NextQueue]_vars

\* Two registerOffer goroutines, one of which sends to a bin no nextOffer reads
\* (group 2 only), beside nextOffer for group 1, registerAnswer / lookupAnswer
\* and the sweeper.
InitBlocked == InitWith(2, 1, 1)

NextBlocked ==
    \/ TableSteps(Users, {<<1>>, <<2>>}, OfferIDs, {1})
    \/ AnswerStepsOn(Users, OfferIDs, {Bytes(<<170>>)})
    \/ SweeperSteps

SpecBlocked == InitBlocked /\ [][NextBlocked]_vars

\* -------------------------------------------------------------- properties
Holding(s) == server[s].pc \in {"check", "rowlock", "expiry"}

\* The goroutine of registerOffer that sent the offer object p and has not
\* yet stored its row.
BeforeInsert(p) ==
    \E c \in DOMAIN client :
        client[c].off.ptr = p /\ client[c].pc \in {"store", "insert"}

\* C1: nextOffer never finds the row of a dequeued offer missing for a reason
\* other than expiry: when it drops an offer because n.answers has no row for
\* its ID, the registerOffer that sent the offer has already stored the row.
C1_NoDropBeforeRow == ev.op = "dropMissing" => ~ BeforeInsert(ev.ptr)

C3_GroupRouting ==
    /\ \A s \in DOMAIN server :
          Holding(s) => server[s].group \in server[s].off.valid
    /\ \A c \in DOMAIN client :
          client[c].pc = "send" =>
             \A g \in client[c].off.valid :
                client[c].binID \in BinIDsOf(g, build)

\* C4: an offer object is held by at most one nextOffer call, and by none
\* while its registerOffer still waits in the send: the call that returns it
\* is the only one that ever received it.
C4_OneTaker ==
    /\ \A s1, s2 \in DOMAIN server :
          (s1 # s2 /\ Holding(s1) /\ Holding(s2)) =>
             server[s1].off.ptr # server[s2].off.ptr
    /\ \A c \in DOMAIN client, s \in DOMAIN server :
          (client[c].pc = "send" /\ Holding(s)) =>
             server[s].off.ptr # client[c].off.ptr

C4_Witness ==
    /\ ev.op = "nextOffer"
    /\ ev.err = NoErr
    /\ \E s \in DOMAIN server : server[s].pc = "probe"

\* C5: a registerAnswer call returns nil only on a row on which no earlier
\* call has returned nil.
C5_AtMostOneAnswer ==
    [][(ev'.op = "registerAnswer" /\ ev'.err = NoErr) =>
            Len(answers[ev'.id].acks) = 0]_vars

\* C6: lookupAnswer by a user who is not the owner of the row returns
\* ErrNoAccess and no body, whether the row has a body or not.
C6_Authorization ==
    (/\ ev.op = "lookupAnswer"
     /\ ev.id \in DOMAIN answers
     /\ answers[ev.id].user # ev.user)
        => (ev.err = ErrNoAccess /\ ev.body = NilBytes)

C6_Witness ==
    /\ ev.op = "lookupAnswer"
    /\ ev.err = ErrNoAccess
    /\ ev.id \in DOMAIN answers
    /\ HasBody(answers[ev.id])

\* C7: once registerAnswer(id, b) has returned nil, lookupAnswer by the owner
\* returns b and no error as long as the row is there.
C7_AnswerVisible ==
    (/\ ev.op = "lookupAnswer"
     /\ ev.id \in DOMAIN answers
     /\ answers[ev.id].user = ev.user
     /\ Len(answers[ev.id].acks) > 0)
        => (ev.err = NoErr /\ ev.body = answers[ev.id].acks[1])

\* The table without the row mutexes.
Table(t) == [x \in DOMAIN t |-> [t[x] EXCEPT !.mutex = NoProc]]

\* A step of a registerAnswer call that does not return nil.
FailingAnswerStep ==
    \/ ev'.op = "registerAnswer" /\ ev'.err # NoErr
    \/ \E w \in DOMAIN worker :
          /\ worker'[w] # worker[w]
          /\ worker'[w].pc \in {"ra_rowlock", "ra_body"}

Age(row) == ttl - row.expiry

C10_BadGroups ==
    \A c \in DOMAIN client :
        client[c].pc # "idle" => client[c].off.valid # {}

\* C11: registerOffer never replaces a row that is still in the table: when it
\* stores the row of a freshly drawn offer ID, the table has no row of that ID.
C11_NoReplace ==
    [][(ev'.op = "registerOffer" /\ ev'.err = NoErr) =>
          ev'.id \notin DOMAIN answers]_vars

\* A step of a lookupAnswer call, and a step of a registerAnswer call.
LookupStep ==
    \/ ev'.op = "lookupAnswer"
    \/ \E w \in DOMAIN worker :
          /\ worker'[w] # worker[w]
          /\ worker'[w].pc \in {"la_rowlock", "la_body"}

RegisterStep ==
    \/ ev'.op = "registerAnswer"
    \/ \E w \in DOMAIN worker :
          /\ worker'[w] # worker[w]
          /\ worker'[w].pc \in {"ra_rowlock", "ra_body"}

\* C12: no step of lookupAnswer changes, adds or removes a row, so that its
\* result is the one the row it leaves behind gives again; a step of
\* registerAnswer adds and removes no row, changes no expiry and no owner, and
\* changes no row but the one of its offer ID.
C12_Frame ==
    /\ [][LookupStep => Table(answers') = Table(answers)]_vars
    /\ [][RegisterStep =>
            /\ DOMAIN answers' = DOMAIN answers
            /\ \A x \in DOMAIN answers :
                  /\ answers'[x].expiry = answers[x].expiry
                  /\ answers'[x].user = answers[x].user
                  /\ (ev'.op # "registerAnswer" \/ x # ev'.id) =>
                        Table(answers')[x] = Table(answers)[x]]_vars
    /\ []((ev.op = "lookupAnswer" /\ ev.id \in DOMAIN answers) =>
            [err |-> ev.err, body |-> ev.body]
               = LookupResult(answers[ev.id], ev.user))

C12_Witness ==
    /\ ev.op = "registerAnswer"
    /\ ev.err = NoErr
    /\ \E x \in DOMAIN answers :
          /\ x # ev.id
          /\ ev.id \in DOMAIN answers
          /\ answers[x].body # answers[ev.id].body
          /\ answers[ev.id].expiry < ttl

\* C13: every nextOffer call terminates: the goroutine that is in nextOffer
\* is back out of it later on.
C13_Terminates == (server[1].pc # "idle") ~> (server[1].pc = "idle")

\* C14: the offer of a registerOffer whose caller has gone away is not handed
\* to a nextOffer call: an offer a nextOffer call holds or returns comes from
\* a registerOffer whose caller was there when it was taken.
C14_Cancellation ==
    /\ \A s \in DOMAIN server, c \in DOMAIN client :
          (Holding(s) /\ client[c].off.ptr = server[s].off.ptr) =>
             client[c].live
    /\ \A c \in DOMAIN client :
          (ev.op = "nextOffer" /\ ev.err = NoErr
              /\ client[c].off.ptr = ev.ptr) => client[c].live

\* C15: the reply of API.lookupAnswer to the owner of an offer whose row is
\* in the table is success with the registered answer when the row has a
\* body, and pending when it has none.
C15_GatewayLookup ==
    (/\ ev.op = "API.lookupAnswer"
     /\ ev.id \in DOMAIN answers
     /\ answers[ev.id].user = ev.user)
        => IF HasBody(answers[ev.id])
           THEN /\ ev.err = "success"
                /\ ev.body = EncodeToString(answers[ev.id].body)
           ELSE ev.err = "pending"

\* C16: the NextOfferHandler is called only for a poll that returned an
\* offer: never for one that ended in ErrNoOfferAvailable or another error,
\* and so never with offer ID 0 and a nil SDP.
C16_HandlerOnlyOnOffer ==
    ev.op = "nextOfferHandler" =>
        /\ ev.err = NoErr
        /\ ~ (ev.id = 0 /\ ev.body = NilBytes)

\* C17: nextOffer returns the ID of an offer only when, at its check, the
\* table has a row of that ID whose expiry has not passed; an offer whose row
\* is absent or expired is dropped, and the call probes the same bin again.
C17_StalenessSkip ==
    /\ []((ev.op = "nextOffer" /\ ev.err = NoErr) =>
            /\ ev.id \in DOMAIN answers
            /\ answers[ev.id].expiry >= 0)
    /\ [][\A s \in DOMAIN server :
            (Holding(s) /\ ~ Holding(s)') =>
               IF server[s].off.id \in DOMAIN answers
                     /\ answers[server[s].off.id].expiry >= 0
               THEN /\ ev'.op = "nextOffer"
                    /\ ev'.err = NoErr
                    /\ ev'.id = server[s].off.id
                    /\ ev'.body = server[s].off.sdp
               ELSE /\ ev'.op \in {"dropMissing", "dropExpired"}
                    /\ server'[s].pc = "probe"
                    /\ server'[s].cur = server[s].cur
                    /\ server'[s].left = server[s].left]_vars

C17_Witness ==
    /\ ev.op = "dropExpired"
    /\ ev.id \in DOMAIN answers
    /\ \E s \in DOMAIN server : server[s].pc = "probe"

\* C18: a sweep removes exactly the rows whose expiry has passed and leaves
\* the others as they are; a row leaves the table only in a sweep, after its
\* expiry, and never while a registerAnswer or lookupAnswer call works on it.
C18_SweeperExact ==
    /\ [][(sweeper.pc = "sweep" /\ sweeper'.pc = "sleep") =>
            /\ DOMAIN answers' =
                  {x \in DOMAIN answers : answers[x].expiry >= 0}
            /\ \A x \in DOMAIN answers' : answers'[x] = answers[x]]_vars
    /\ [][\A x \in DOMAIN answers \ DOMAIN answers' :
            /\ sweeper.pc = "sweep"
            /\ answers[x].expiry < 0
            /\ answers[x].mutex = NoProc
            /\ \A w \in DOMAIN worker : worker[w].pc = "idle"]_vars

C18_Witness ==
    /\ ev.op = "purge"
    /\ \E x \in DOMAIN answers : answers[x].expiry >= 0
    /\ DOMAIN answers # RowIDs

\* The next step of the goroutine that holds the table mutex.
HolderStep ==
    \/ \E c \in DOMAIN client :
          mutexAnswers = <<"client", c>> /\ RO_Insert(c)
    \/ \E s \in DOMAIN server :
          /\ mutexAnswers = <<"server", s>>
          /\ (NO_RowLock(s) \/ NO_Expired(s) \/ NO_Return(s))
    \/ \E w \in DOMAIN worker :
          /\ mutexAnswers = <<"worker", w>>
          /\ (RA_RowLock(w) \/ RA_Repeated(w) \/ RA_Set(w)
                 \/ LA_RowLock(w) \/ LA_Return(w))
    \/ mutexAnswers = <<"sweeper", 0>> /\ AP_Sweep

\* C19: a row mutex is held only by the goroutine that holds the table mutex
\* (so it was taken under the table mutex, and the table mutex is never
\* awaited by a holder of a row mutex), no goroutine holds two row mutexes,
\* and the holder of the table mutex can always take its next step: no
\* interleaving ends with goroutines waiting for each other's mutexes.
C19_LockOrder ==
    /\ \A x \in DOMAIN answers :
          answers[x].mutex # NoProc => answers[x].mutex = mutexAnswers
    /\ \A x, y \in DOMAIN answers :
          (answers[x].mutex # NoProc /\ answers[y].mutex # NoProc) => x = y
    /\ mutexAnswers # NoProc => ENABLED HolderStep

C19_Witness ==
    /\ \E w \in DOMAIN worker :
          /\ worker[w].pc \in {"ra_body", "la_body"}
          /\ answers[worker[w].id].mutex = <<"worker", w>>
          /\ \E x \in DOMAIN answers : x # worker[w].id
    /\ \E s \in DOMAIN server : server[s].pc = "check"
    /\ \E c \in DOMAIN client : client[c].pc = "store"
    /\ sweeper.pc = "sleep" /\ sweeper.sleep = 0

\* C20: registerAnswer and lookupAnswer have released the table mutex when
\* they read or write the body of the row: a goroutine that is inside its row
\* critical section does not hold n.mutexAnswers.
C20_TableLockReleased ==
    \A w \in DOMAIN worker :
        worker[w].pc \in {"ra_body", "la_body"} =>
            mutexAnswers # <<"worker", w>>

\* C21: the bin a registerOffer waits on is the bitwise OR of 2^(g-1) over the
\* members g of its group list in 1..maxGroupID (so members outside the range
\* and duplicates do not count), and it is one of the bins 1..2^maxGroupID-1
\* that NewNegotiator made.
C21_BinEncoding ==
    \A c \in DOMAIN client :
        client[c].pc = "send" =>
            /\ client[c].binID = {g - 1 : g \in client[c].off.valid}
            /\ client[c].binID \in OfferBins

\* The offer of sender c goes to nextOffer s in this step.
Receives(s, c) ==
    /\ client[c].pc = "send"
    /\ client'[c].pc = "store"
    /\ server[s].pc = "probe"
    /\ server'[s].pc = "check"
    /\ server'[s].off = client[c].off

BlockedSenders == {c \in DOMAIN client : client[c].pc = "send"}

\* C23: while registerOffer goroutines are blocked in the send, none of them
\* holds the table mutex or a row mutex, and they keep nobody out: the holder
\* of the table mutex can take its next step, and when the table mutex is
\* free, nextOffer (with an offer to check), registerAnswer, lookupAnswer and
\* the sweeper that has woken up can each enter their critical section.
C23_BlockedHoldsNoLock ==
    BlockedSenders # {} =>
        /\ \A c \in BlockedSenders :
              /\ mutexAnswers # <<"client", c>>
              /\ \A x \in DOMAIN answers : answers[x].mutex # <<"client", c>>
        /\ mutexAnswers # NoProc => ENABLED HolderStep
        /\ mutexAnswers = NoProc =>
              /\ \A s \in DOMAIN server :
                    server[s].pc = "check" =>
                        ENABLED (NO_Missing(s) \/ NO_Found(s))
              /\ \A w \in DOMAIN worker :
                    worker[w].pc = "idle" =>
                        /\ ENABLED (\E id \in OfferIDs :
                                       \/ RA_Invalid(w, id, NilBytes)
                                       \/ RA_Found(w, id, NilBytes))
                        /\ ENABLED (\E id \in OfferIDs :
                                       \/ LA_Invalid(w, 1, id)
                                       \/ LA_Found(w, 1, id))
              /\ (sweeper.pc = "sleep" /\ sweeper.sleep = 0) =>
                    ENABLED AP_Lock

\* Two registerOffer goroutines are blocked, on different bins, and
\* registerAnswer has just stored an answer.
C23_Witness ==
    /\ BlockedSenders = DOMAIN client
    /\ \E c, d \in DOMAIN client : client[c].binID # client[d].binID
    /\ ev.op = "registerAnswer"
    /\ ev.err = NoErr

\* C24: registerAnswer and lookupAnswer answer ErrInvalidOfferID exactly when
\* the table has no row for the ID, whatever the expiry of the row: the error
\* is only returned for an absent row, and for every row of the table, expired
\* or not, a call that gets the table mutex goes on to the row and cannot
\* return ErrInvalidOfferID.
C24_ExpiryNotConsulted ==
    /\ (ev.op \in {"registerAnswer", "lookupAnswer"}
           /\ ev.err = ErrInvalidOfferID) => ev.id \notin DOMAIN answers
    /\ \A w \in DOMAIN worker, id \in DOMAIN answers, u \in Lookers :
          (worker[w].pc = "idle" /\ mutexAnswers = NoProc) =>
              /\ ENABLED RA_Found(w, id, NilBytes)
              /\ ~ ENABLED RA_Invalid(w, id, NilBytes)
              /\ ENABLED LA_Found(w, u, id)
              /\ ~ ENABLED LA_Invalid(w, u, id)

\* lookupAnswer has just returned the body of a row to its owner, and the
\* expiry of the row, which the sweeper has not removed yet, has passed.
C24_Witness ==
    /\ ev.op = "lookupAnswer"
    /\ ev.err = NoErr
    /\ ev.id \in DOMAIN answers
    /\ answers[ev.id].expiry < 0
    /\ ev.user = answers[ev.id].user
    /\ ev.body = answers[ev.id].body
    /\ ev.body # NilBytes

====
